---- MODULE Spec2Model ----
(***************************************************************************)
(* State-machine model of the EEG preparation scripts:                     *)
(*   code_filterer.py  apply_bandpass_filter, process_eeg_file, main       *)
(*   code_doctor.py    check_* groups and diagnose_eeg_file                *)
(*                                                                         *)
(* Numbers.  A float64 cell is an integer: the finite values are           *)
(* -FMax..FMax (FMax stands for the largest finite double), and three      *)
(* codes outside that range stand for +inf, -inf and NaN.  Arithmetic      *)
(* follows IEEE-754 on that range: a finite result beyond FMax becomes an  *)
(* infinity, inf + -inf is NaN, NaN is absorbing.  A fourth code stands    *)
(* for a cell that is not a number (a string read from the file).         *)
(*                                                                         *)
(* Library calls.  scipy's butter/filtfilt/sosfilt are not part of the     *)
(* repository.  They are modelled by the facts the code relies on:         *)
(* butter raises for a negative order, filtfilt raises when the input is   *)
(* not longer than its pad length, both filters are linear (an all-zero    *)
(* input gives an all-zero output, a non-finite input sample makes the     *)
(* output non-finite) and may overflow on samples near the float limit.    *)
(* The finite output samples are representatives: sign(x) for the          *)
(* band-pass result and 2*sign(x) for the high-pass result.                *)
(***************************************************************************)
EXTENDS Integers, Sequences, FiniteSets, TLC

\* ------------------------------------------------------------ bounds
\* Largest finite magnitude of the modelled float.
FMax == 1000000
\* Most channels of a table handed to apply_bandpass_filter directly.
MaxCh == 2

\* ------------------------------------------------------------ floats
PINF == FMax + 1
NINF == 0 - (FMax + 1)
NAN == FMax + 2
STR == FMax + 3
\* a cell of a boolean column (True)
BOOLV == FMax + 4

\* np.isfinite on one cell
IsFinite(v) == v >= 0 - FMax /\ v <= FMax

\* rounding of an exact finite result to the float range
Round(z) == IF z > FMax THEN PINF ELSE IF z < 0 - FMax THEN NINF ELSE z

\* float64 addition
FAdd(a, b) ==
  IF a = NAN \/ b = NAN THEN NAN
  ELSE IF a = PINF THEN (IF b = NINF THEN NAN ELSE PINF)
  ELSE IF a = NINF THEN (IF b = PINF THEN NAN ELSE NINF)
  ELSE IF b = PINF \/ b = NINF THEN b
  ELSE Round(a + b)

Abs(z) == IF z < 0 THEN 0 - z ELSE z
Sgn(z) == IF z < 0 THEN 0 - 1 ELSE IF z > 0 THEN 1 ELSE 0

\* ------------------------------------------------------------ tables
\* A 2-D array, samples x channels, held column by column:
\* [nrows, ncols, col], col[k][i] = data[i-1, k-1].
Table(nrows, cols) == [nrows |-> nrows, ncols |-> Len(cols), col |-> cols]

\* data.size
Size(t) == t.nrows * t.ncols

Cells(t) == {t.col[k][i] : k \in 1..t.ncols, i \in 1..t.nrows}

\* np.all(np.isfinite(x)) on a 1-D array
AllFinite(x) == \A i \in 1..Len(x) : IsFinite(x[i])

\* np.all(x == 0) on a 1-D array
AllZero(x) == \A i \in 1..Len(x) : x[i] = 0

\* np.all(np.isfinite(data))
TableAllFinite(t) == \A k \in 1..t.ncols : AllFinite(t.col[k])

\* dtype object: some cell is not a number, np.isfinite raises TypeError
IsObjectArray(t) == STR \in Cells(t)

\* np.nan_to_num(data, nan=0.0, posinf=0.0, neginf=0.0): a new array
NanToNum(t) ==
  [t EXCEPT !.col = [k \in 1..t.ncols |->
     [i \in 1..t.nrows |-> IF IsFinite(t.col[k][i]) THEN t.col[k][i] ELSE 0]]]

\* np.zeros_like(data)
ZerosLike(t) ==
  [t EXCEPT !.col = [k \in 1..t.ncols |-> [i \in 1..t.nrows |-> 0]]]

\* ------------------------------------------------------------ band edges
\* Frequencies are integers in tenths of a hertz, the sampling rate in hertz;
\* a normalised frequency is an exact fraction <<num, den>> with den > 0.
RLess(p, q) == p[1] * q[2] < q[1] * p[2]

\* lowcut / nyquist with nyquist = sampling_rate / 2  (sampling_rate # 0)
OverNyquist(f, rate) ==
  IF rate > 0 THEN <<f, 5 * rate>> ELSE <<0 - f, 0 - (5 * rate)>>

\* Python max(x, y): y when y > x, else x
PyMax(x, y) == IF RLess(x, y) THEN y ELSE x
\* Python min(x, y): y when y < x, else x
PyMin(x, y) == IF RLess(y, x) THEN y ELSE x

\* low_norm = max(lowcut / nyquist, 0.001)
LowNorm(lc, rate) == PyMax(OverNyquist(lc, rate), <<1, 1000>>)
\* high_norm = min(highcut / nyquist, 0.99)
HighNorm(hc, rate) == PyMin(OverNyquist(hc, rate), <<99, 100>>)

\* variant: the comparison written as low_norm > high_norm
InvalidRangeStrict(lo, hi) == RLess(hi, lo)

\* low_norm >= high_norm
InvalidRange(lo, hi) == ~RLess(lo, hi)

\* ------------------------------------------------------------ mean removal
\* np.mean sums the column with numpy's pairwise summation: fewer than 8
\* elements are added in order; up to 128 elements go to 8 running sums
\* (lane k takes elements k, k+8, ...), which are added as a tree, and the
\* elements after the last whole block of 8 are added in order; a longer
\* array is split in two halves (the first a multiple of 8 long).
RECURSIVE SeqSum(_, _, _, _)
\* acc + x[from] + ... + x[to], added left to right
SeqSum(x, acc, from, to) ==
  IF from > to THEN acc ELSE SeqSum(x, FAdd(acc, x[from]), from + 1, to)

RECURSIVE Lane(_, _, _, _)
\* x[off+k] + x[off+k+8] + ... over the first m blocks of 8
Lane(x, off, k, m) ==
  IF m = 1 THEN x[off + k]
  ELSE LET r == Lane(x, off, k, m - 1) IN FAdd(r, x[off + 8 * (m - 1) + k])

RECURSIVE PairwiseSum(_, _, _)
\* the sum of the n elements x[off+1 .. off+n]
PairwiseSum(x, off, n) ==
  IF n < 8 THEN SeqSum(x, 0, off + 1, off + n)
  ELSE IF n <= 128
  THEN LET m == n \div 8
           r == [k \in 1..8 |-> Lane(x, off, k, m)]
           res == FAdd(FAdd(FAdd(r[1], r[2]), FAdd(r[3], r[4])),
                       FAdd(FAdd(r[5], r[6]), FAdd(r[7], r[8])))
       IN SeqSum(x, res, off + 8 * m + 1, off + n)
  ELSE LET h == n \div 2
           n2 == h - (h % 8)
           a == PairwiseSum(x, off, n2)
           b == PairwiseSum(x, off + n2, n - n2)
       IN FAdd(a, b)

\* the sum np.mean divides by len(x)
SumTo(x, n) == PairwiseSum(x, 0, n)

\* One sample of channel_data.  A finite sample is kept exactly as the
\* numerator of a fraction over n = len(x): [fin |-> TRUE, v |-> n*x - sum];
\* otherwise v is the code of the infinity or NaN.
Special(c) == [fin |-> FALSE, v |-> c]

\* x_i - mean, with s the sum of the column and n its length
SubMean(xi, s, n) ==
  IF xi = NAN \/ s = NAN THEN Special(NAN)
  ELSE IF xi = PINF THEN (IF s = PINF THEN Special(NAN) ELSE Special(PINF))
  ELSE IF xi = NINF THEN (IF s = NINF THEN Special(NAN) ELSE Special(NINF))
  ELSE IF s = PINF THEN Special(NINF)
  ELSE IF s = NINF THEN Special(PINF)
  ELSE IF n * xi - s > n * FMax THEN Special(PINF)
  ELSE IF n * xi - s < 0 - (n * FMax) THEN Special(NINF)
  ELSE [fin |-> TRUE, v |-> n * xi - s]

\* channel_data = data[:, channel] - np.mean(data[:, channel])
ChannelData(x) ==
  LET s == SumTo(x, Len(x))
  IN [i \in 1..Len(x) |-> SubMean(x[i], s, Len(x))]

CdAllFinite(cd) == \A i \in 1..Len(cd) : cd[i].fin
CdAllZero(cd) == \A i \in 1..Len(cd) : cd[i].fin /\ cd[i].v = 0
\* a sample so large that doubling it leaves the float range
CdNearLimit(cd) ==
  \E i \in 1..Len(cd) : cd[i].fin /\ 2 * Abs(cd[i].v) > Len(cd) * FMax

\* ------------------------------------------------------------ scipy.signal
\* signal.butter(min(order, 4), [low_norm, high_norm], btype='bandpass'):
\* raises ValueError for a negative order
ButterRaises(ord) == (IF ord < 4 THEN ord ELSE 4) < 0

\* the designed filter: its order and filtfilt's default pad length,
\* 3 * max(len(a), len(b)) with len(a) = len(b) = 2 * order + 1
Butter(ord) ==
  LET n == IF ord < 4 THEN ord ELSE 4
  IN [designed |-> TRUE, n |-> n, padlen |-> 3 * (2 * n + 1)]

NoFilter == [designed |-> FALSE, n |-> 0, padlen |-> 0]

Raised == [raised |-> TRUE, y |-> <<>>]
Value(y) == [raised |-> FALSE, y |-> y]

\* signal.filtfilt(b, a, channel_data): the outcomes the library can give
Filtfilt(ba, cd) ==
  IF Len(cd) <= ba.padlen THEN {Raised}
  ELSE IF ~CdAllFinite(cd) THEN {Value([i \in 1..Len(cd) |-> NAN])}
  ELSE {Value([i \in 1..Len(cd) |-> Sgn(cd[i].v)])}
       \cup (IF CdNearLimit(cd)
             THEN {Value([i \in 1..Len(cd) |-> NAN])} ELSE {})

\* index of the first sample from which a causal filter's output is spoilt
FirstBad(cd, near) ==
  LET bad == {i \in 1..Len(cd) :
                ~cd[i].fin \/ (near /\ 2 * Abs(cd[i].v) > Len(cd) * FMax)}
  IN IF bad = {} THEN Len(cd) + 1
     ELSE CHOOSE i \in bad : \A j \in bad : i <= j

SosOut(cd, near) ==
  LET fb == FirstBad(cd, near)
  IN [i \in 1..Len(cd) |-> IF i >= fb THEN NAN ELSE 2 * Sgn(cd[i].v)]

\* signal.sosfilt(signal.butter(2, low_norm, 'highpass', output='sos'),
\* channel_data): the outcomes the library can give
Sosfilt(cd) ==
  {Value(SosOut(cd, FALSE))}
  \cup (IF CdNearLimit(cd) THEN {Value(SosOut(cd, TRUE))} ELSE {})

\* ------------------------------------------------------------ one channel
\* variant: the all-zero test left out
AcceptedIfFinite(y) == AllFinite(y)

\* np.all(np.isfinite(filtered_channel)) and not np.all(filtered_channel == 0)
Accepted(y) == AllFinite(y) /\ ~AllZero(y)

\* the body of the per-channel try, for the library outcomes fr and hr
ChannelResult(x, fr, hr) ==
  IF fr.raised \/ hr.raised
  THEN [tag |-> "passthrough_on_error", y |-> x]
  ELSE IF Accepted(fr.y)
  THEN [tag |-> "filtered", y |-> fr.y]
  ELSE [tag |-> "fallback_highpass", y |-> hr.y]

\* ------------------------------------------------------------ state
VARIABLES
  entry,          \* "call": apply_bandpass_filter called directly; "main": the batch
  pc,             \* position in apply_bandpass_filter
  arg,            \* the caller's array object, as passed in
  data,           \* the local name data (rebound by the cleaning step)
  lowcut, highcut, sampling_rate, order,
  low_norm, high_norm,
  ba,             \* the designed band-pass filter (b, a)
  filtered_data,
  channel,        \* loop index, 0-based as in the source
  ret,            \* the returned array
  path,           \* which return (or raise) ended the call
  tags,           \* per channel: the branch that wrote it (history)
  visits,         \* per channel: how often the loop body ran for it (history)
  lib,            \* per channel: what filtfilt and sosfilt gave (history)
  caller,         \* what the caller's array object holds now
  same,           \* the local names bound to the caller's array object
  mpc,            \* position in main / process_eeg_file
  fs,             \* the directory tree: the set of file paths <<dir, name>>
  dir,            \* the directory os.walk is in (0: not started)
  files,          \* the listing os.walk gave for that directory
  pos,            \* index of the current filename in files
  found_count, processed_count,
  file_path,
  eeg_data,       \* the DataFrame read from file_path: [columns, values]
  filtered_df,    \* the DataFrame built from the filter's result
  seen,           \* the paths handed to process_eeg_file, in order (history)
  outcome,        \* what process_eeg_file returned for each of them (history)
  tree,           \* the directory tree main was started on (history)
  written,        \* the paths to_csv has written to (history)
  dpc,            \* position in diagnose_eeg_file
  dfile,          \* the file under diagnosis
  access_problems, format_problems, content_problems, filter_problems,
  all_problems,
  ran,            \* the check groups run so far, in order (history)
  ftrace          \* what the filter check got to: design, columns tried (history)

fvars == <<pc, arg, data, lowcut, highcut, sampling_rate, order, low_norm,
           high_norm, ba, filtered_data, channel, ret, path, tags, visits, lib,
           caller, same>>

mvars == <<mpc, fs, dir, files, pos, found_count, processed_count, file_path,
           eeg_data, filtered_df, seen, outcome, tree, written>>

dvars == <<dpc, dfile, access_problems, format_problems, content_problems,
           filter_problems, all_problems, ran, ftrace>>

vars == <<entry, fvars, mvars, dvars>>

NotCalled == [called |-> FALSE, raised |-> FALSE, y |-> <<>>]
Called(r) == [called |-> TRUE, raised |-> r.raised, y |-> r.y]

NoTable == Table(0, <<>>)
NoNorm == <<0, 1>>

\* the frame of a call apply_bandpass_filter(t, lc, hc, rate, ord), in the
\* order of fvars
Frame(t, lc, hc, rate, ord) ==
  <<"call", t, t, lc, hc, rate, ord, NoNorm, NoNorm, NoFilter, NoTable, 0,
    NoTable, "none",
    [k \in 1..t.ncols |-> "none"],
    [k \in 1..t.ncols |-> 0],
    [k \in 1..t.ncols |-> [bp |-> NotCalled, hp |-> NotCalled]],
    t, {"data"}>>

\* no call in progress
NoFrame ==
  <<"idle", NoTable, NoTable, 0, 0, 0, 0, NoNorm, NoNorm, NoFilter, NoTable, 0,
    NoTable, "none", <<>>, <<>>, <<>>, NoTable, {}>>

\* the frame variables hold f, a tuple in the order of fvars
FrameIs(f) ==
  /\ pc = f[1]
  /\ arg = f[2]
  /\ data = f[3]
  /\ lowcut = f[4]
  /\ highcut = f[5]
  /\ sampling_rate = f[6]
  /\ order = f[7]
  /\ low_norm = f[8]
  /\ high_norm = f[9]
  /\ ba = f[10]
  /\ filtered_data = f[11]
  /\ channel = f[12]
  /\ ret = f[13]
  /\ path = f[14]
  /\ tags = f[15]
  /\ visits = f[16]
  /\ lib = f[17]
  /\ caller = f[18]
  /\ same = f[19]

\* the frame variables become f
FrameBecomes(f) ==
  /\ pc' = f[1]
  /\ arg' = f[2]
  /\ data' = f[3]
  /\ lowcut' = f[4]
  /\ highcut' = f[5]
  /\ sampling_rate' = f[6]
  /\ order' = f[7]
  /\ low_norm' = f[8]
  /\ high_norm' = f[9]
  /\ ba' = f[10]
  /\ filtered_data' = f[11]
  /\ channel' = f[12]
  /\ ret' = f[13]
  /\ path' = f[14]
  /\ tags' = f[15]
  /\ visits' = f[16]
  /\ lib' = f[17]
  /\ caller' = f[18]
  /\ same' = f[19]

\* ------------------------------------------------------------ apply_bandpass_filter
\* return data (lines 23, 39, 73) or return filtered_data (line 69)
Return(t, how) ==
  /\ ret' = t
  /\ path' = how
  /\ pc' = "returned"

\* an exception that leaves apply_bandpass_filter
Raise(what) ==
  /\ path' = what
  /\ pc' = "raised"
  /\ UNCHANGED ret

\* variant: np.nan_to_num(..., copy=False) cleans the array it is given
NanToNumOverwrites(t) == NanToNum(t)

\* what the array handed to np.nan_to_num holds afterwards: the call of line
\* 28 leaves copy at its default True, so the array is left as it was
NanToNumLeaves(t) == t

\* line 26: the cleaning step of line 28 is taken
Cleans(t) == Size(t) # 0 /\ ~IsObjectArray(t) /\ ~TableAllFinite(t)

\* lines 20-46: validation, cleaning, band edges, design, output allocation
Prologue ==
  /\ pc = "call"
  /\ IF Cleans(data)
     THEN /\ caller' = IF "data" \in same THEN NanToNumLeaves(caller) ELSE caller
          /\ same' = same \ {"data"}
     ELSE UNCHANGED <<caller, same>>
  /\ IF Size(data) = 0
     THEN /\ Return(data, "empty")
          /\ UNCHANGED <<data, low_norm, high_norm, ba, filtered_data>>
     ELSE IF IsObjectArray(data)
     THEN /\ Raise("TypeError")
          /\ UNCHANGED <<data, low_norm, high_norm, ba, filtered_data>>
     ELSE LET clean == IF TableAllFinite(data) THEN data ELSE NanToNum(data)
          IN /\ data' = clean
             /\ IF sampling_rate = 0
                THEN /\ Raise("ZeroDivisionError")
                     /\ UNCHANGED <<low_norm, high_norm, ba, filtered_data>>
                ELSE LET lo == LowNorm(lowcut, sampling_rate)
                         hi == HighNorm(highcut, sampling_rate)
                     IN /\ low_norm' = lo
                        /\ high_norm' = hi
                        /\ IF InvalidRange(lo, hi)
                           THEN /\ Return(clean, "range")
                                /\ UNCHANGED <<ba, filtered_data>>
                           ELSE IF ButterRaises(order)
                           THEN /\ Return(clean, "design")
                                /\ UNCHANGED <<ba, filtered_data>>
                           ELSE /\ ba' = Butter(order)
                                /\ filtered_data' = ZerosLike(clean)
                                /\ pc' = "loop"
                                /\ UNCHANGED <<ret, path>>
  /\ UNCHANGED <<dvars, entry, arg, lowcut, highcut, sampling_rate, order, channel,
                 tags, visits, lib>>
  /\ UNCHANGED mvars

\* variant: the result always written to the first column
WriteFirstChannel(fd, k, y) == [fd EXCEPT !.col[1] = y]

\* the column the loop body writes for `channel`
WriteChannel(fd, k, y) == [fd EXCEPT !.col[k] = y]

\* lines 47-67: one iteration of the channel loop
FilterChannel ==
  /\ pc = "loop"
  /\ channel < data.ncols
  /\ LET k == channel + 1
         x == data.col[k]
         cd == ChannelData(x)
     IN \E fr \in Filtfilt(ba, cd) :
          \E hr \in (IF ~fr.raised /\ ~Accepted(fr.y)
                     THEN {Called(h) : h \in Sosfilt(cd)} ELSE {NotCalled}) :
            LET r == ChannelResult(x, fr, hr)
            IN /\ filtered_data' = WriteChannel(filtered_data, k, r.y)
               /\ tags' = [tags EXCEPT ![k] = r.tag]
               /\ visits' = [visits EXCEPT ![k] = @ + 1]
               /\ lib' = [lib EXCEPT ![k] = [bp |-> Called(fr), hp |-> hr]]
               /\ caller' = IF "filtered_data" \in same
                             THEN WriteChannel(caller, k, r.y) ELSE caller
  /\ channel' = channel + 1
  /\ UNCHANGED <<dvars, entry, pc, arg, data, lowcut, highcut, sampling_rate, order,
                 low_norm, high_norm, ba, ret, path, same>>
  /\ UNCHANGED mvars

\* line 69: return filtered_data
ReturnFiltered ==
  /\ pc = "loop"
  /\ channel = data.ncols
  /\ Return(filtered_data, "normal")
  /\ UNCHANGED <<dvars, entry, arg, data, lowcut, highcut, sampling_rate, order,
                 low_norm, high_norm, ba, filtered_data, channel, tags,
                 visits, lib, caller, same>>
  /\ UNCHANGED mvars

\* ------------------------------------------------------------ files
\* A file name is the sequence of its parts: <<stem, ".csv">> or
\* <<stem, "_filtered", ".csv">>; a path is <<dir, name>>.
target_files ==
  {<<"task1_memorize", ".csv">>, <<"task2_viewing", ".csv">>,
   <<"task3_recall", ".csv">>}

\* the names a directory of the modelled tree may hold, in listing order
NameOrder ==
  <<(<<"task1_memorize", ".csv">>),
    (<<"task1_memorize", "_filtered", ".csv">>), (<<"task2_viewing", ".csv">>)>>

Names == {NameOrder[i] : i \in 1..Len(NameOrder)}

InDir(f, d, n) == <<d, n>> \in f

\* the files entry os.walk yields for directory d of tree f
Listing(f, d) == SelectSeq(NameOrder, LAMBDA n : InDir(f, d, n))

\* os.path.splitext(file_path)[0]
SplitextBase(fp) ==
  LET n == fp[2]
  IN <<fp[1], IF Len(n) > 1 THEN SubSeq(n, 1, Len(n) - 1) ELSE n>>

\* variant: the result saved under the input's own path
OutputOverInput(fp) == fp

\* f"{base_name}_filtered.csv"
OutputPath(fp) ==
  LET b == SplitextBase(fp) IN <<b[1], b[2] \o <<"_filtered", ".csv">> >>

NoFrameDf == [columns |-> <<>>, values |-> NoTable]
NoPath == <<0, <<>> >>

\* ------------------------------------------------------------ inputs
\* Row counts around the lengths that matter: the empty array, filtfilt's
\* pad length for order 4 (27) and the next length, and a full recording.
RowCounts == {0, 27, 28, 100}

ColumnKinds == {"zero", "const", "wave", "dirty", "huge", "hugewave"}

\* a column of n samples
Column(kind, n) ==
  [i \in 1..n |->
     CASE kind = "zero" -> 0
       [] kind = "const" -> 5
       [] kind = "wave" -> (IF i % 2 = 1 THEN 1 ELSE 0 - 1)
       [] kind = "dirty" -> (IF i = 1 THEN NAN
                             ELSE IF i = 2 THEN NINF
                             ELSE IF i = n THEN PINF
                             ELSE IF i % 2 = 1 THEN 1 ELSE 0 - 1)
       [] kind = "huge" -> FMax
       [] kind = "hugewave" -> (IF i % 2 = 1 THEN FMax ELSE 0 - FMax)
       [] kind = "text" -> (IF i = 1 THEN STR ELSE 1)]

KindSeqs(n) == UNION {[1..c -> ColumnKinds] : c \in 0..n}

\* the arrays apply_bandpass_filter is called with directly
Tables ==
  {Table(n, [k \in 1..Len(ks) |-> Column(ks[k], n)]) :
     n \in RowCounts, ks \in KindSeqs(MaxCh)}

\* <<lowcut, highcut>> in tenths of a hertz
Bands == {<<5, 400>>, <<400, 400>>, <<400, 5>>, <<0, 2000>>, <<1300, 2000>>}
Rates == {0 - 250, 0, 250}
Orders == {0 - 1, 2, 6}

\* what pd.read_csv(file_path, sep=';') can give for a target file:
\* "raise", or a DataFrame
Frames ==
  {[columns |-> <<"Fp1", "Fp2">>,
    values |-> Table(28, <<Column("wave", 28), Column("const", 28)>>)],
   [columns |-> <<"Fp1", "Fp2">>,
    values |-> Table(27, <<Column("wave", 27), Column("dirty", 27)>>)],
   [columns |-> <<"Fp1", "Fp2">>, values |-> Table(0, <<(<<>>), (<<>>)>>)],
   [columns |-> <<"Fp1", "Fp2">>,
    values |-> Table(28, <<Column("wave", 28), Column("text", 28)>>)]}

\* the directory trees main is run on
NDirs == 2
Trees == SUBSET ((1..NDirs) \X Names)

\* ------------------------------------------------------------ process_eeg_file
\* back in main after process_eeg_file(file_path) returned result (lines
\* 143-146); the locals of process_eeg_file are gone
BackInMain(result) ==
  /\ processed_count' = IF result THEN processed_count + 1 ELSE processed_count
  /\ outcome' = Append(outcome, result)
  /\ pos' = pos + 1
  /\ mpc' = "walk"
  /\ eeg_data' = NoFrameDf
  /\ filtered_df' = NoFrameDf

\* lines 89-101: read the file, take its values, call the filter
Load ==
  /\ mpc = "read"
  /\ \/ \* pd.read_csv raises: caught at line 116, return False
        /\ BackInMain(FALSE)
        /\ UNCHANGED fvars
     \/ \E df \in Frames :
          /\ eeg_data' = df
          /\ FrameBecomes(Frame(df.values, 5, 400, 250, 4))
          /\ mpc' = "filter"
          /\ UNCHANGED <<pos, processed_count, outcome, filtered_df>>
  /\ UNCHANGED <<dvars, entry, fs, dir, files, found_count, file_path, seen>>
  /\ UNCHANGED <<tree, written>>

\* apply_bandpass_filter raised: caught at line 116, return False
FilterFailed ==
  /\ mpc = "filter"
  /\ pc = "raised"
  /\ BackInMain(FALSE)
  /\ FrameBecomes(NoFrame)
  /\ UNCHANGED <<dvars, entry, fs, dir, files, found_count, file_path, seen>>
  /\ UNCHANGED <<tree, written>>

\* pd.DataFrame(filtered_array, columns=eeg_data.columns) raises when the
\* array's column count is not the number of names
LabelRaises(t, columns) == t.ncols # Len(columns)

\* lines 103-104: the filter returned; label its result with the input's
\* column names
Label ==
  /\ mpc = "filter"
  /\ pc = "returned"
  /\ IF LabelRaises(ret, eeg_data.columns)
     THEN /\ BackInMain(FALSE)
          /\ FrameBecomes(NoFrame)
     ELSE /\ filtered_df' = [columns |-> eeg_data.columns, values |-> ret]
          /\ mpc' = "save"
          /\ UNCHANGED <<fvars, pos, processed_count, outcome, eeg_data>>
  /\ UNCHANGED <<dvars, entry, fs, dir, files, found_count, file_path, seen>>
  /\ UNCHANGED <<tree, written>>

\* lines 106-114: derive the output path and save
Save ==
  /\ mpc = "save"
  /\ \/ \* to_csv succeeds: the output file exists afterwards
        /\ fs' = fs \cup {OutputPath(file_path)}
        /\ written' = written \cup {OutputPath(file_path)}
        /\ BackInMain(TRUE)
     \/ \* to_csv raises: caught at line 116, return False
        /\ BackInMain(FALSE)
        /\ UNCHANGED <<fs, written>>
  /\ FrameBecomes(NoFrame)
  /\ UNCHANGED <<dvars, entry, dir, files, found_count, file_path, seen>>
  /\ UNCHANGED tree

\* ------------------------------------------------------------ main
\* os.walk moves on to the next directory and lists it
WalkNextDir ==
  /\ mpc = "walk"
  /\ pos > Len(files)
  /\ dir < NDirs
  /\ dir' = dir + 1
  /\ files' = Listing(fs, dir + 1)
  /\ pos' = 1
  /\ UNCHANGED <<dvars, entry, fvars, mpc, fs, found_count, processed_count,
                 file_path, eeg_data, filtered_df, seen, outcome>>
  /\ UNCHANGED <<tree, written>>

\* variant: a name that starts like a target is taken for one
IsTargetByStem(name) == \E t \in target_files : name[1] = t[1]

\* filename in target_files
IsTarget(name) == name \in target_files

\* lines 138-141: a filename that is not a target is passed over
Skip ==
  /\ mpc = "walk"
  /\ pos <= Len(files)
  /\ ~IsTarget(files[pos])
  /\ pos' = pos + 1
  /\ UNCHANGED <<dvars, entry, fvars, mpc, fs, dir, files, found_count,
                 processed_count, file_path, eeg_data, filtered_df, seen,
                 outcome>>
  /\ UNCHANGED <<tree, written>>

\* lines 139-143: a target filename is counted and handed to process_eeg_file
Found ==
  /\ mpc = "walk"
  /\ pos <= Len(files)
  /\ IsTarget(files[pos])
  /\ found_count' = found_count + 1
  /\ file_path' = <<dir, files[pos]>>
  /\ seen' = Append(seen, <<dir, files[pos]>>)
  /\ mpc' = "read"
  /\ UNCHANGED <<dvars, entry, fvars, fs, dir, files, pos, processed_count, eeg_data,
                 filtered_df, outcome>>
  /\ UNCHANGED <<tree, written>>

\* line 148: the walk is over, the summary is printed
Summary ==
  /\ mpc = "walk"
  /\ pos > Len(files)
  /\ dir = NDirs
  /\ mpc' = "done"
  /\ UNCHANGED <<dvars, entry, fvars, fs, dir, files, pos, found_count,
                 processed_count, file_path, eeg_data, filtered_df, seen,
                 outcome>>
  /\ UNCHANGED <<tree, written>>

\* ------------------------------------------------------------ code_doctor: files
\* The separators tried, in order: ';', ',', '\t' (separators_to_try).
separators_to_try == <<";", ",", "tab">>

\* A file as the checks see it: whether it exists, is readable, whether
\* os.path.getsize raises, its size in bytes, and for each separator what
\* pd.read_csv gives: head = "ok" or "raise" for the nrows=5 read, full =
\* "ok" or the exception of the full read, df = the DataFrame parsed.
ParseOk(df) == [head |-> "ok", full |-> "ok", df |-> df]
ParseRaise == [head |-> "raise", full |-> "Error", df |-> NoFrameDf]
ParseFullRaise(df, e) == [head |-> "ok", full |-> e, df |-> df]

channel_names ==
  <<"Fp1", "Fp2", "F3", "F4", "C3", "C4", "P3", "P4", "O1", "O2", "F7", "F8",
    "T3", "T4", "T5", "T6", "Fz", "Cz", "Pz">>

DocKinds ==
  {"wave", "const", "allnan", "mostlynan", "text", "extreme", "inf", "bool"}

\* a column of n cells as read from a file
DocColumn(kind, n) ==
  [i \in 1..n |->
     CASE kind = "wave" -> (IF i % 2 = 1 THEN 1 ELSE 0 - 1)
       [] kind = "const" -> 5
       [] kind = "allnan" -> NAN
       [] kind = "mostlynan" -> (IF i % 3 = 1 THEN i ELSE NAN)
       [] kind = "text" -> (IF i = 2 THEN STR ELSE IF i = 3 THEN NAN ELSE i)
       [] kind = "extreme" -> (IF i = 1 THEN 20000 ELSE 1)
       [] kind = "inf" -> (IF i = 1 THEN PINF ELSE i)
       [] kind = "bool" -> BOOLV
       [] kind = "line" -> STR]

DocFrame(n, ks) ==
  [columns |-> SubSeq(channel_names, 1, Len(ks)),
   values |-> Table(n, [k \in 1..Len(ks) |-> DocColumn(ks[k], n)])]

\* the file's lines read as a single column of text
OneColumn(df) ==
  [columns |-> <<"line">>,
   values |-> Table(df.values.nrows, <<DocColumn("line", df.values.nrows)>>)]

\* ------------------------------------------------------------ check_file_access
Msg(text, col, n) == [text |-> text, col |-> col, n |-> n]

\* lines 7-29
check_file_access(f) ==
  IF ~f.exists THEN <<Msg("File does not exist", "", 0)>>
  ELSE (IF ~f.readable
        THEN <<Msg("File is not readable (permission issue)", "", 0)>>
        ELSE <<>>)
       \o (IF f.stat_fails THEN <<Msg("File access error", "", 0)>>
           ELSE IF f.size = 0 THEN <<Msg("File is empty (0 bytes)", "", 0)>>
           ELSE IF f.size < 100
           THEN <<Msg("File is very small - possibly incomplete", "", f.size)>>
           ELSE <<>>)

HasText(ps, text) == \E i \in 1..Len(ps) : ps[i].text = text

\* variant: only a missing file ends the diagnosis
FatalIfMissing(ps) == HasText(ps, "File does not exist")

\* variant: an empty file ends the diagnosis too
FatalIfEmpty(ps) ==
  \/ HasText(ps, "File does not exist")
  \/ HasText(ps, "File is not readable (permission issue)")
  \/ HasText(ps, "File is empty (0 bytes)")

\* line 256: "File does not exist" in access_problems or
\* "not readable" in str(access_problems)
AccessIsFatal(ps) ==
  \/ HasText(ps, "File does not exist")
  \/ HasText(ps, "File is not readable (permission issue)")

\* ------------------------------------------------------------ check_csv_format
RECURSIVE SniffFrom(_, _)
\* lines 41-49: index of the first separator whose 5-row read has more than
\* one column, 0 when there is none
SniffFrom(f, j) ==
  IF j > Len(separators_to_try) THEN 0
  ELSE IF f.parse[j].head = "ok" /\ f.parse[j].df.values.ncols > 1 THEN j
  ELSE SniffFrom(f, j + 1)

\* df.columns.duplicated().any()
HasDuplicates(columns) ==
  \E i, j \in 1..Len(columns) : i < j /\ columns[i] = columns[j]

\* lines 31-81
check_csv_format(f) ==
  LET used == SniffFrom(f, 1)
  IN IF used = 0
     THEN <<Msg("Cannot parse CSV with any common separator", "", 0)>>
     ELSE (IF used # 1
           THEN <<Msg("Using separator instead of expected ';'",
                      separators_to_try[used], 0)>>
           ELSE <<>>)
          \o (IF f.parse[used].full = "UnicodeDecodeError"
              THEN <<Msg("File encoding issue", "", 0)>>
              ELSE IF f.parse[used].full # "ok"
              THEN <<Msg("CSV format error", "", 0)>>
              ELSE LET t == f.parse[used].df.values
                   IN (IF t.nrows = 0
                       THEN <<Msg("File has no data rows (only header)", "", 0)>>
                       ELSE <<>>)
                      \o (IF t.ncols < 2
                          THEN <<Msg("Too few columns", "", t.ncols)>>
                          ELSE <<>>)
                      \o (IF t.ncols # 19
                          THEN <<Msg("Unexpected number of channels", "",
                                     t.ncols)>>
                          ELSE <<>>)
                      \o (IF HasDuplicates(f.parse[used].df.columns)
                          THEN <<Msg("Duplicate column names found", "", 0)>>
                          ELSE <<>>))

\* ------------------------------------------------------------ check_data_content
RECURSIVE SelectFrom(_, _, _)
\* lines 92-98 (and 173-179): df after the separator loop, as the index of
\* the separator it was read with; 0 stands for df is None.  Every
\* successful read rebinds df; the loop stops at more than one column.
SelectFrom(f, j, cur) ==
  IF j > Len(separators_to_try) THEN cur
  ELSE IF f.parse[j].full # "ok" THEN SelectFrom(f, j + 1, cur)
  ELSE IF f.parse[j].df.values.ncols > 1 THEN j
  ELSE SelectFrom(f, j + 1, j)

SelectedIndex(f) == SelectFrom(f, 1, 0)

\* pandas dtype of a column: object when a cell is text
IsObject(x) == \E i \in 1..Len(x) : x[i] = STR
IsBool(x) == Len(x) > 0 /\ \A i \in 1..Len(x) : x[i] = BOOLV

\* pd.to_numeric(col, errors='coerce')
ToNumeric(x) ==
  [i \in 1..Len(x) |->
     IF x[i] = STR THEN NAN ELSE IF x[i] = BOOLV THEN 1 ELSE x[i]]

\* col.isna().sum()
CountNa(x) == Cardinality({i \in 1..Len(x) : x[i] = NAN})

\* col.dropna()
DropNa(x) == SelectSeq(x, LAMBDA v : v # NAN)

SeqMax(x) == CHOOSE v \in {x[i] : i \in 1..Len(x)} :
               \A i \in 1..Len(x) : x[i] <= v
SeqMin(x) == CHOOSE v \in {x[i] : i \in 1..Len(x)} :
               \A i \in 1..Len(x) : v <= x[i]

\* lines 111-146: the checks of one column; raised when the body throws
ColumnCheck(name, x) ==
  LET numeric_col == IF IsObject(x) THEN ToNumeric(x) ELSE x
      non_numeric_count == CountNa(numeric_col) - CountNa(x)
      m1 == IF IsObject(x) /\ non_numeric_count > 0
            THEN <<Msg("has non-numeric values", name, non_numeric_count)>>
            ELSE <<>>
      valid_data == DropNa(numeric_col)
      m2 == IF 2 * CountNa(numeric_col) > Len(numeric_col)
            THEN <<Msg("is mostly NaN/missing", name, CountNa(numeric_col))>>
            ELSE <<>>
      m3 == IF /\ Len(valid_data) > 1
               /\ (IsFinite(valid_data[1]) \/ valid_data[1] = BOOLV)
               /\ \A i \in 1..Len(valid_data) : valid_data[i] = valid_data[1]
            THEN <<Msg("has zero variance", name, valid_data[1])>>
            ELSE <<>>
      m4 == IF Len(valid_data) > 0
               /\ (Abs(SeqMax(valid_data)) > 10000
                   \/ Abs(SeqMin(valid_data)) > 10000)
            THEN <<Msg("has extreme values", name, 0)>>
            ELSE <<>>
      m5 == IF \E i \in 1..Len(valid_data) :
                 valid_data[i] = PINF \/ valid_data[i] = NINF
            THEN <<Msg("contains infinite values", name, 0)>>
            ELSE <<>>
  IN IF CountNa(numeric_col) = Len(numeric_col)
     THEN [msgs |-> m1 \o <<Msg("is entirely NaN/missing", name, 0)>>,
           raised |-> FALSE]
     ELSE IF IsBool(x)
     THEN \* valid_data.max() - valid_data.min() on booleans: TypeError
          [msgs |-> m1 \o m2 \o m3, raised |-> TRUE]
     ELSE [msgs |-> m1 \o m2 \o m3 \o m4 \o m5, raised |-> FALSE]

RECURSIVE ColumnLoop(_, _, _)
\* line 110: for col_idx, col_name in enumerate(df.columns)
ColumnLoop(df, k, acc) ==
  IF k > Len(df.columns) THEN [msgs |-> acc, raised |-> FALSE]
  ELSE LET r == ColumnCheck(df.columns[k], df.values.col[k])
       IN IF r.raised THEN [msgs |-> acc \o r.msgs, raised |-> TRUE]
          ELSE ColumnLoop(df, k + 1, acc \o r.msgs)

RECURSIVE NumericCount(_, _)
\* df.select_dtypes(include=[np.number]).count().sum() over columns 1..k
NumericCount(t, k) ==
  IF k = 0 THEN 0
  ELSE NumericCount(t, k - 1)
       + (IF IsObject(t.col[k]) \/ IsBool(t.col[k]) THEN 0
          ELSE t.nrows - CountNa(t.col[k]))

\* lines 83-162
check_data_content(f) ==
  LET j == SelectedIndex(f)
  IN IF j = 0 THEN <<Msg("Cannot read file for data analysis", "", 0)>>
     ELSE LET df == f.parse[j].df
              t == df.values
          IN IF Size(t) = 0
             THEN <<Msg("DataFrame is completely empty", "", 0)>>
             ELSE LET loop == ColumnLoop(df, 1, <<>>)
                  IN IF loop.raised
                     THEN loop.msgs
                          \o <<Msg("Data content analysis error", "", 0)>>
                     ELSE loop.msgs
                          \o (IF 10 * NumericCount(t, t.ncols) < 8 * Size(t)
                              THEN <<Msg("Less than 80% of data is numeric",
                                         "", NumericCount(t, t.ncols))>>
                              ELSE <<>>)
                          \o (IF t.nrows < 100
                              THEN <<Msg("Very few data points", "", t.nrows)>>
                              ELSE <<>>)

\* ------------------------------------------------------------ check_filter_compatibility
\* numeric_df.dropna(): the rows with no missing value in any column
ValidRows(t) ==
  {i \in 1..t.nrows : \A k \in 1..t.ncols : ToNumeric(t.col[k])[i] # NAN}

\* a raw sample array as filtfilt's input
\* (a finite sample is the numerator of a fraction over len(x), as in
\* ChannelData)
AsSignal(x) ==
  [i \in 1..Len(x) |->
     IF IsFinite(x[i]) THEN [fin |-> TRUE, v |-> Len(x) * x[i]]
     ELSE Special(x[i])]

\* col_data.head(n).values
HeadRows(x, n) == SubSeq(x, 1, IF Len(x) < n THEN Len(x) ELSE n)

\* lines 216-231 for one column: the entries filtfilt's outcome fr leads to
FilterEntry(name, fr) ==
  IF fr.raised THEN <<Msg("Filter fails on column", name, 0)>>
  ELSE IF AllZero(fr.y) THEN <<Msg("Filter produces all zeros", name, 0)>>
  ELSE IF ~AllFinite(fr.y)
  THEN <<Msg("Filter produces non-finite values", name, 0)>>
  ELSE <<>>

\* variant: the filter tried on every column
TestedAll(df) == 1..Len(df.columns)

\* the columns the filter is tried on: numeric_df.columns[:min(3, n)]
TestedColumns(df) ==
  1..(IF 3 < Len(df.columns) THEN 3 ELSE Len(df.columns))

RECURSIVE FilterLoop(_, _, _)
\* the reports the column loop can give from column k on
FilterLoop(df, k, acc) ==
  IF k \notin TestedColumns(df) THEN {acc}
  ELSE LET col_data == DropNa(ToNumeric(df.values.col[k]))
       IN IF Len(col_data) >= 50
          THEN UNION {FilterLoop(df, k + 1,
                                 acc \o FilterEntry(df.columns[k], fr)) :
                        fr \in Filtfilt(Butter(4), AsSignal(HeadRows(col_data, 100)))}
          ELSE FilterLoop(df, k + 1, acc)

NoTrace == [design |-> FALSE, columns |-> {}]

\* how far the check gets: whether line 213 designs the filter, and the
\* columns line 222 applies it to
FilterTrace(f) ==
  LET j == SelectedIndex(f)
  IN IF j = 0 THEN NoTrace
     ELSE LET df == f.parse[j].df
          IN IF Cardinality(ValidRows(df.values)) < 50 THEN NoTrace
             ELSE [design |-> TRUE,
                   columns |->
                     {k \in TestedColumns(df) :
                        Len(DropNa(ToNumeric(df.values.col[k]))) >= 50}]

\* lines 164-239: the reports the check can give
check_filter_compatibility(f) ==
  LET j == SelectedIndex(f)
  IN IF j = 0
     THEN {<<Msg("Cannot read file for filter compatibility check", "", 0)>>}
     ELSE LET df == f.parse[j].df
          IN IF Cardinality(ValidRows(df.values)) < 50
             THEN {<<Msg("Insufficient valid data points for reliable filtering",
                        "", 0)>>}
             ELSE FilterLoop(df, 1, <<>>)

\* ------------------------------------------------------------ diagnose_eeg_file
\* variant: every entry prefixed ACCESS
PrefixedAccess(cat, ps) ==
  [i \in 1..Len(ps) |->
     [cat |-> "ACCESS", text |-> ps[i].text, col |-> ps[i].col, n |-> ps[i].n]]

\* [f"ACCESS: {p}" for p in access_problems]
Prefixed(cat, ps) ==
  [i \in 1..Len(ps) |->
     [cat |-> cat, text |-> ps[i].text, col |-> ps[i].col, n |-> ps[i].n]]

\* lines 249-259
DiagAccess ==
  /\ dpc = "access"
  /\ LET ps == check_file_access(dfile)
     IN /\ access_problems' = ps
        /\ all_problems' = all_problems \o Prefixed("ACCESS", ps)
        /\ dpc' = IF ps # <<>> /\ AccessIsFatal(ps) THEN "done" ELSE "format"
  /\ ran' = Append(ran, "access")
  /\ UNCHANGED <<entry, fvars, mvars, dfile, format_problems,
                 content_problems, filter_problems, ftrace>>

\* lines 261-268
DiagFormat ==
  /\ dpc = "format"
  /\ LET ps == check_csv_format(dfile)
     IN /\ format_problems' = ps
        /\ all_problems' = all_problems \o Prefixed("FORMAT", ps)
  /\ dpc' = "content"
  /\ ran' = Append(ran, "format")
  /\ UNCHANGED <<entry, fvars, mvars, dfile, access_problems,
                 content_problems, filter_problems, ftrace>>

\* lines 270-277
DiagContent ==
  /\ dpc = "content"
  /\ LET ps == check_data_content(dfile)
     IN /\ content_problems' = ps
        /\ all_problems' = all_problems \o Prefixed("CONTENT", ps)
  /\ dpc' = "filter"
  /\ ran' = Append(ran, "content")
  /\ UNCHANGED <<entry, fvars, mvars, dfile, access_problems,
                 format_problems, filter_problems, ftrace>>

\* lines 279-296
DiagFilter ==
  /\ dpc = "filter"
  /\ \E ps \in check_filter_compatibility(dfile) :
       /\ filter_problems' = ps
       /\ all_problems' = all_problems \o Prefixed("FILTER", ps)
  /\ ftrace' = FilterTrace(dfile)
  /\ dpc' = "done"
  /\ ran' = Append(ran, "filter")
  /\ UNCHANGED <<entry, fvars, mvars, dfile, access_problems,
                 format_problems, content_problems>>

\* ------------------------------------------------------------ diagnosed files
DocRows == {0, 40, 60, 100}
MaxDocCols == 2

DocFrames ==
  {DocFrame(n, ks) : n \in DocRows,
                     ks \in UNION {[1..c -> DocKinds] : c \in 1..MaxDocCols}}
  \cup {DocFrame(60, [k \in 1..4 |-> IF k = 4 THEN "bool" ELSE "wave"]),
        DocFrame(100, [k \in 1..19 |-> "wave"])}

\* how the file is laid out: sep = the index of the separator it is written
\* with (0: a single column, no separator in it), wrong = what a read with
\* another separator gives, full = what the full read gives
Layouts ==
  [sep : 0..3, wrong : {"onecol", "raise"},
   full : {"ok", "ParserError", "UnicodeDecodeError"}]

FirstColumn(df) ==
  [columns |-> SubSeq(df.columns, 1, 1),
   values |-> Table(df.values.nrows, SubSeq(df.values.col, 1, 1))]

Readable(l, df) ==
  IF l.full = "ok" THEN ParseOk(df) ELSE ParseFullRaise(df, l.full)

DataFile(l, df) ==
  [exists |-> TRUE, readable |-> TRUE, stat_fails |-> FALSE,
   size |-> IF df.values.nrows = 0 THEN 50 ELSE 5000,
   parse |-> [j \in 1..3 |->
                IF l.sep = 0 THEN Readable(l, FirstColumn(df))
                ELSE IF j = l.sep THEN Readable(l, df)
                ELSE IF l.wrong = "raise" THEN ParseRaise
                ELSE ParseOk(OneColumn(df))]]

\* a file no read of which succeeds
NoData(exists, readable, stat_fails, size) ==
  [exists |-> exists, readable |-> readable, stat_fails |-> stat_fails,
   size |-> size, parse |-> [j \in 1..3 |-> ParseRaise]]

DocFiles ==
  {DataFile(l, df) : l \in Layouts, df \in DocFrames}
  \cup {NoData(FALSE, FALSE, FALSE, 0)}
  \cup {NoData(TRUE, FALSE, sf, sz) : sf \in BOOLEAN, sz \in {0, 50, 5000}}
  \cup {NoData(TRUE, TRUE, TRUE, 5000), NoData(TRUE, TRUE, FALSE, 0)}

DiagIdle ==
  /\ dpc = "idle"
  /\ dfile = NoData(FALSE, FALSE, FALSE, 0)
  /\ access_problems = <<>> /\ format_problems = <<>>
  /\ content_problems = <<>> /\ filter_problems = <<>>
  /\ all_problems = <<>> /\ ran = <<>>
  /\ ftrace = NoTrace

\* ------------------------------------------------------------ specification
MainIdle ==
  /\ fs = {} /\ dir = 0 /\ files = <<>> /\ pos = 1
  /\ found_count = 0 /\ processed_count = 0
  /\ file_path = NoPath /\ eeg_data = NoFrameDf /\ filtered_df = NoFrameDf
  /\ seen = <<>> /\ outcome = <<>>
  /\ tree = fs /\ written = {}

InitCall ==
  /\ entry = "call"
  /\ \E t \in Tables, b \in Bands, r \in Rates, o \in Orders :
       FrameIs(Frame(t, b[1], b[2], r, o))
  /\ mpc = "direct"
  /\ MainIdle
  /\ DiagIdle

InitMain ==
  /\ entry = "main"
  /\ FrameIs(NoFrame)
  /\ mpc = "walk"
  /\ fs \in Trees
  /\ dir = 0 /\ files = <<>> /\ pos = 1
  /\ found_count = 0 /\ processed_count = 0
  /\ file_path = NoPath /\ eeg_data = NoFrameDf /\ filtered_df = NoFrameDf
  /\ seen = <<>> /\ outcome = <<>>
  /\ tree = fs /\ written = {}
  /\ DiagIdle

Init == InitCall \/ InitMain

Next ==
  \/ Prologue \/ FilterChannel \/ ReturnFiltered
  \/ Load \/ FilterFailed \/ Label \/ Save
  \/ WalkNextDir \/ Skip \/ Found \/ Summary

Spec == Init /\ [][Next]_vars

\* diagnose_eeg_file(file_path) on any modelled file
InitDiag ==
  /\ entry = "diagnose"
  /\ FrameIs(NoFrame)
  /\ mpc = "idle"
  /\ MainIdle
  /\ dpc = "access"
  /\ dfile \in DocFiles
  /\ access_problems = <<>> /\ format_problems = <<>>
  /\ content_problems = <<>> /\ filter_problems = <<>>
  /\ all_problems = <<>> /\ ran = <<>>
  /\ ftrace = NoTrace

NextDiag == DiagAccess \/ DiagFormat \/ DiagContent \/ DiagFilter

SpecDiag == InitDiag /\ [][NextDiag]_vars

\* ------------------------------------------------------------ properties of the filter
\* the input of the call with its NaN and infinite cells replaced by zero
Cleaned(x) == [i \in 1..Len(x) |-> IF IsFinite(x[i]) THEN x[i] ELSE 0]

SameShape(t, u) ==
  /\ t.nrows = u.nrows
  /\ t.ncols = u.ncols
  /\ Len(t.col) = Len(u.col)
  /\ \A k \in 1..Len(t.col) : Len(t.col[k]) = Len(u.col[k])

\* C1: a recording of at least 100 rows whose cells are all finite numbers
\* comes back from apply_bandpass_filter without NaN or infinite cells.
C1_FiniteOutput ==
  (pc = "returned" /\ Size(arg) # 0 /\ arg.nrows >= 100 /\ TableAllFinite(arg))
    => TableAllFinite(ret)

\* the arrays that can be made from the one input column x under design d
FromChannel(x, d) ==
  LET sx == Cleaned(x)
      cd == ChannelData(sx)
  IN {x, sx} \cup
     (IF d.designed
      THEN {fr.y : fr \in {r \in Filtfilt(d, cd) : ~r.raised}}
           \cup {hr.y : hr \in Sosfilt(cd)}
      ELSE {})

\* C2: on every return path the returned table has the rows and columns of
\* the input, column k holds what was made from input channel k and from no
\* other, and the output frame carries the input's column labels.
C2_ShapeAndOrder ==
  /\ pc = "returned" =>
       /\ SameShape(ret, arg)
       /\ \A k \in 1..arg.ncols : ret.col[k] \in FromChannel(arg.col[k], ba)
  /\ mpc = "save" =>
       /\ filtered_df.columns = eeg_data.columns
       /\ SameShape(filtered_df.values, eeg_data.values)
       /\ \A k \in 1..Len(eeg_data.columns) :
            filtered_df.values.col[k]
              \in FromChannel(eeg_data.values.col[k], ba)

\* two channels of one file, one band-pass filtered and one sent to the
\* fallback, labelled and ready to be saved
C2_Witness ==
  /\ mpc = "save"
  /\ path = "normal"
  /\ tags = <<"filtered", "fallback_highpass">>
  /\ filtered_df.values.col[1] # filtered_df.values.col[2]

\* the band of the call is rejected by the range check of lines 37-39
BandInvalid ==
  \/ lowcut >= highcut
  \/ /\ sampling_rate # 0
     /\ ~RLess(LowNorm(lowcut, sampling_rate), HighNorm(highcut, sampling_rate))

\* rejected with the range error: nothing designed, no channel touched, the
\* cleaned input returned
RangeRejected ==
  /\ pc = "returned"
  /\ path = "range"
  /\ ~ba.designed
  /\ \A k \in 1..arg.ncols :
       /\ visits[k] = 0
       /\ tags[k] = "none"
       /\ ~lib[k].bp.called
       /\ ~lib[k].hp.called
  /\ SameShape(ret, arg)
  /\ \A k \in 1..arg.ncols : ret.col[k] = Cleaned(arg.col[k])

OutcomeOk(k, out) ==
  LET x == data.col[k]
      cd == ChannelData(x)
      bp == lib[k].bp
      hp == lib[k].hp
  IN /\ bp.called
     /\ [raised |-> bp.raised, y |-> bp.y] \in Filtfilt(ba, cd)
     /\ IF bp.raised
        THEN tags[k] = "passthrough_on_error" /\ out = x /\ ~hp.called
        ELSE IF AllFinite(bp.y) /\ ~AllZero(bp.y)
        THEN tags[k] = "filtered" /\ out = bp.y /\ ~hp.called
        ELSE /\ tags[k] = "fallback_highpass"
             /\ hp.called
             /\ [raised |-> hp.raised, y |-> hp.y] \in Sosfilt(cd)
             /\ out = hp.y

\* the channels visited so far each have one of the three outcomes, the
\* others are untouched
LoopSoFar ==
  \A k \in 1..data.ncols :
    IF k <= channel
    THEN visits[k] = 1 /\ OutcomeOk(k, filtered_data.col[k])
    ELSE /\ visits[k] = 0
         /\ tags[k] = "none"
         /\ AllZero(filtered_data.col[k])

\* C4 (as stated): once the range check is passed every channel is visited
\* exactly once and gets exactly one of band-pass result, fallback result or
\* unfiltered channel, the band-pass result being kept exactly when it is
\* finite and not all zero.
C4_ChannelOutcomes ==
  /\ pc = "loop" => LoopSoFar
  /\ (pc = "returned" /\ path \in {"normal", "design"}) =>
       \A k \in 1..data.ncols : visits[k] = 1 /\ OutcomeOk(k, ret.col[k])

\* C4: the same when the shared band-pass design succeeds; when the design
\* fails no channel is visited and the cleaned input is returned whole.
C4_ChannelOutcomesIfDesigned ==
  /\ pc = "loop" => LoopSoFar
  /\ (pc = "returned" /\ path = "normal") =>
       \A k \in 1..data.ncols : visits[k] = 1 /\ OutcomeOk(k, ret.col[k])
  /\ (pc = "returned" /\ path = "design") =>
       /\ ret = data
       /\ \A k \in 1..data.ncols : visits[k] = 0 /\ tags[k] = "none"

\* a fallback on the first channel next to an accepted band-pass result on
\* the second
C4_Witness ==
  /\ pc = "returned"
  /\ path = "normal"
  /\ tags = <<"fallback_highpass", "filtered">>
  /\ visits = <<1, 1>>

IsConstant(x) == \A i \in 1..Len(x) : x[i] = x[1]

\* C5: a channel whose samples all have the same value is all zero after
\* mean removal, is never given the band-pass result, and comes back by the
\* fallback or unfiltered, without NaN or infinite cells.
C5_ConstantChannel ==
  (pc = "returned" /\ path = "normal") =>
    \A k \in 1..arg.ncols :
      (IsConstant(arg.col[k]) /\ IsFinite(arg.col[k][1])) =>
        /\ CdAllZero(ChannelData(data.col[k]))
        /\ tags[k] \in {"fallback_highpass", "passthrough_on_error"}
        /\ AllFinite(ret.col[k])

\* ------------------------------------------------------------ properties of the batch
TargetPaths == {p \in fs : p[2] \in target_files}

\* C10: the batch visits every file named as a target exactly once, goes on
\* after a failure, and counts the files found and the files processed.
C10_BatchCounts ==
  entry = "main" =>
    /\ found_count = Len(seen)
    /\ processed_count
         = Cardinality({i \in 1..Len(outcome) : outcome[i]})
    /\ processed_count <= found_count
    /\ \A i, j \in 1..Len(seen) : seen[i] = seen[j] => i = j
    /\ \A i \in 1..Len(seen) : seen[i] \in TargetPaths
    /\ mpc = "done" =>
         /\ {seen[i] : i \in 1..Len(seen)} = TargetPaths
         /\ Len(outcome) = Len(seen)
         /\ found_count = Cardinality(TargetPaths)

\* a finished batch in which a file failed and a later one was processed
C10_Witness ==
  /\ mpc = "done"
  /\ found_count = 3
  /\ processed_count = 2
  /\ \E i \in 1..Len(outcome) : ~outcome[i] /\ i < Len(outcome) /\ outcome[i + 1]

\* ------------------------------------------------------------ properties of the diagnosis
Groups == <<"access", "format", "content", "filter">>

OnlyAccessRan ==
  /\ dpc = "done"
  /\ ran = <<"access">>
  /\ all_problems # <<>>
  /\ \A i \in 1..Len(all_problems) : all_problems[i].cat = "ACCESS"
  /\ format_problems = <<>>
  /\ content_problems = <<>>
  /\ filter_problems = <<>>

\* C6: for a file that does not exist or cannot be read the diagnosis ends
\* with the access check: only ACCESS entries, no other check run.
C6_AccessShortCircuit ==
  (entry = "diagnose" /\ dpc # "access"
     /\ (~dfile.exists \/ ~dfile.readable))
    => OnlyAccessRan

\* an unreadable file of a few bytes: two ACCESS entries and nothing else
C6_Witness ==
  /\ dpc = "done"
  /\ dfile.exists
  /\ ~dfile.readable
  /\ Len(all_problems) = 2
  /\ ran = <<"access">>

EmptyFile == dfile.exists /\ ~dfile.stat_fails /\ dfile.size = 0

\* C7 (as stated): the diagnosis of an empty file ends with the access
\* check, as for a missing file: only ACCESS entries.
C7_EmptyShortCircuits ==
  (entry = "diagnose" /\ dpc = "done" /\ EmptyFile) => OnlyAccessRan

\* C7: an empty readable file gets its ACCESS entry and the diagnosis goes
\* on: the format, content and filter checks each run and each report that
\* the file cannot be parsed or read.
C7_EmptyNotFatal ==
  (entry = "diagnose" /\ dpc = "done" /\ EmptyFile /\ dfile.readable) =>
    /\ ran = Groups
    /\ Len(all_problems) = 4
    /\ all_problems[1].cat = "ACCESS"
    /\ all_problems[1].text = "File is empty (0 bytes)"
    /\ all_problems[2].cat = "FORMAT"
    /\ all_problems[2].text = "Cannot parse CSV with any common separator"
    /\ all_problems[3].cat = "CONTENT"
    /\ all_problems[3].text = "Cannot read file for data analysis"
    /\ all_problems[4].cat = "FILTER"
    /\ all_problems[4].text = "Cannot read file for filter compatibility check"

\* the diagnosis of an empty readable file, finished
C7_Witness ==
  /\ dpc = "done"
  /\ EmptyFile
  /\ dfile.readable
  /\ ran = Groups
  /\ HasText(access_problems, "File is empty (0 bytes)")

\* the entries of one group as they stand in the report
Tagged(cat, ps) ==
  [i \in 1..Len(ps) |->
     [cat |-> cat, text |-> ps[i].text, col |-> ps[i].col, n |-> ps[i].n]]

\* the full read with the sniffed separator raises
FormatThrows ==
  /\ SniffFrom(dfile, 1) # 0
  /\ dfile.parse[SniffFrom(dfile, 1)].full # "ok"

\* the column loop of the content check raises
ContentThrows ==
  /\ SelectedIndex(dfile) # 0
  /\ LET t == dfile.parse[SelectedIndex(dfile)].df.values
     IN Size(t) # 0 /\ \E k \in 1..t.ncols : IsBool(t.col[k])

\* C8: unless the access check ends the diagnosis, the format, content and
\* filter checks all run, in that order; an exception inside a check is an
\* entry of that check; the report is the ACCESS, FORMAT, CONTENT and FILTER
\* entries in that order, each under its own category.
C8_GroupsInOrder ==
  entry = "diagnose" =>
    /\ Len(ran) <= 4
    /\ ran = SubSeq(Groups, 1, Len(ran))
    /\ dpc = "done" => Len(ran) \in {1, 4}
    /\ (dpc = "done" /\ dfile.exists /\ dfile.readable) => ran = Groups
    /\ all_problems
         = Tagged("ACCESS", access_problems) \o Tagged("FORMAT", format_problems)
           \o Tagged("CONTENT", content_problems)
           \o Tagged("FILTER", filter_problems)
    /\ (Len(ran) >= 2 /\ FormatThrows) =>
         /\ format_problems # <<>>
         /\ format_problems[Len(format_problems)].text
              \in {"CSV format error", "File encoding issue"}
    /\ (Len(ran) >= 3 /\ ContentThrows) =>
         /\ content_problems # <<>>
         /\ content_problems[Len(content_problems)].text
              = "Data content analysis error"

\* a finished diagnosis in which the content check threw and the checks
\* before and after it reported too
C8_Witness ==
  /\ dpc = "done"
  /\ ran = Groups
  /\ format_problems # <<>>
  /\ HasText(content_problems, "Data content analysis error")
  /\ Len(all_problems) > Len(format_problems) + Len(content_problems)

AllMissing(x) == Len(x) > 0 /\ \A i \in 1..Len(x) : x[i] = NAN

\* the entries of the content check about column `name`
About(name) == SelectSeq(content_problems, LAMBDA m : m.col = name)

\* C9: in the content check a column with only missing values gets exactly
\* one entry, 'entirely NaN/missing', and every other column its own entries.
C9_AllMissingColumn ==
  (entry = "diagnose" /\ Len(ran) >= 3 /\ SelectedIndex(dfile) # 0) =>
    LET df == dfile.parse[SelectedIndex(dfile)].df
    IN \A k \in 1..Len(df.columns) :
         AllMissing(df.values.col[k]) =>
           /\ Len(About(df.columns[k])) = 1
           /\ About(df.columns[k])[1].text = "is entirely NaN/missing"

\* ------------------------------------------------------------ properties of the cleaning step
\* C11: for a non-empty recording the table worked on after the cleaning
\* step is a new one with every NaN and infinite cell replaced by zero and
\* every finite cell as it was, the channel loop works on that table, and
\* the caller's array holds what it held at the call on every path.
C11_SanitizedCopy ==
  pc # "idle" =>
    /\ caller = arg
    /\ "filtered_data" \notin same
    /\ (pc # "call" /\ Size(arg) # 0 /\ ~IsObjectArray(arg)) =>
         /\ SameShape(data, arg)
         /\ \A k \in 1..arg.ncols : data.col[k] = Cleaned(arg.col[k])
         /\ ~TableAllFinite(arg) => "data" \notin same
         /\ pc = "loop" => TableAllFinite(data) /\ SameShape(filtered_data, data)

\* a recording with NaN and infinite cells, cleaned and band-pass filtered,
\* the caller's array still holding them
C11_Witness ==
  /\ pc = "returned"
  /\ path = "normal"
  /\ ~TableAllFinite(arg)
  /\ TableAllFinite(data)
  /\ ~TableAllFinite(caller)
  /\ \E k \in 1..arg.ncols : tags[k] = "filtered" /\ ~AllFinite(arg.col[k])

\* ------------------------------------------------------------ properties of the separator choice
\* the separators whose full read of the file gives more than one column
MultiColumn(f) ==
  {j \in 1..Len(separators_to_try) :
     f.parse[j].full = "ok" /\ f.parse[j].df.values.ncols > 1}

\* the first of them, 0 when there is none
FirstMultiColumn(f) ==
  IF MultiColumn(f) = {} THEN 0
  ELSE CHOOSE j \in MultiColumn(f) : \A i \in MultiColumn(f) : j <= i

\* C12: the format, content and filter checks choose the same separator for
\* the same file, the first of ';', ',', tab that gives more than one column,
\* and when none does no check has a table to analyse.
C12_SameSelection ==
  (entry = "diagnose" /\ ran = Groups) =>
    /\ SniffFrom(dfile, 1) = FirstMultiColumn(dfile)
    /\ SelectedIndex(dfile) = FirstMultiColumn(dfile)
    /\ FirstMultiColumn(dfile) = 0 =>
         /\ format_problems
              = <<Msg("Cannot parse CSV with any common separator", "", 0)>>
         /\ content_problems
              = <<Msg("Cannot read file for data analysis", "", 0)>>
         /\ filter_problems
              = <<Msg("Cannot read file for filter compatibility check", "", 0)>>

\* ------------------------------------------------------------ properties of the filter check
\* the rows of t in which every cell is a number
CompleteRows(t) ==
  {i \in 1..t.nrows :
     \A k \in 1..t.ncols : t.col[k][i] # NAN /\ t.col[k][i] # STR}

\* C13: with a table read, the filter check stops with the one entry
\* 'insufficient valid data' when fewer than 50 rows are complete after
\* coercion, designing and applying nothing; with 50 or more it applies the
\* filter to at most the first 3 columns.
C13_FilterCheckStops ==
  (entry = "diagnose" /\ ran = Groups /\ SelectedIndex(dfile) # 0) =>
    LET df == dfile.parse[SelectedIndex(dfile)].df
    IN IF Cardinality(CompleteRows(df.values)) < 50
       THEN /\ filter_problems
                 = <<Msg("Insufficient valid data points for reliable filtering",
                         "", 0)>>
            /\ ~ftrace.design
            /\ ftrace.columns = {}
       ELSE /\ ftrace.design
            /\ ftrace.columns \subseteq 1..3
            /\ Len(filter_problems) <= 3
            /\ \A i \in 1..Len(filter_problems) :
                 \E k \in 1..3 :
                   /\ k <= Len(df.columns)
                   /\ filter_problems[i].col = df.columns[k]

\* a table of 60 rows of which fewer than 50 are complete: the check stopped
C13_Witness ==
  /\ dpc = "done"
  /\ ran = Groups
  /\ SelectedIndex(dfile) # 0
  /\ dfile.parse[SelectedIndex(dfile)].df.values.nrows >= 50
  /\ Cardinality(CompleteRows(dfile.parse[SelectedIndex(dfile)].df.values)) < 50
  /\ Cardinality(CompleteRows(dfile.parse[SelectedIndex(dfile)].df.values)) > 0
  /\ Len(filter_problems) = 1
  /\ ~ftrace.design

\* ------------------------------------------------------------ properties of the output path
\* C14: the output of a target-named input goes to another path, in the same
\* directory, whose name is the input's base name, '_filtered' and '.csv' and
\* is no target name; no target-named file is ever written; so the tree the
\* run leaves holds the target-named files it was started on, and a run
\* started on it finds the files and the found_count of this run.
C14_OutputIsNoInput ==
  entry = "main" =>
    /\ \A i \in 1..Len(seen) :
         LET out == OutputPath(seen[i])
         IN /\ out # seen[i]
            /\ out[1] = seen[i][1]
            /\ out[2] \notin target_files
            /\ out[2] = SubSeq(seen[i][2], 1, Len(seen[i][2]) - 1)
                          \o <<"_filtered", ".csv">>
    /\ \A p \in written : p[2] \notin target_files
    /\ fs = tree \cup written
    /\ {p \in fs : IsTarget(p[2])} = {p \in tree : IsTarget(p[2])}
    /\ mpc = "done" =>
         /\ {p \in fs : IsTarget(p[2])} = {seen[i] : i \in 1..Len(seen)}
         /\ Cardinality({p \in fs : IsTarget(p[2])}) = found_count

\* a finished run that saved two outputs, one of them over a file that was
\* there before
C14_Witness ==
  /\ mpc = "done"
  /\ Cardinality(written) = 2
  /\ written \cap tree # {}
  /\ written \ tree # {}
  /\ found_count = processed_count

====
